---- MODULE Spec2Model ----
(***************************************************************************)
(* Model of scrape_pokecardex.py: the price normaliser, the page parser,   *)
(* the pagination loop of fetch_cards and the two exporters run by main.   *)
(*                                                                         *)
(* Text is a sequence of one-character strings; "nbsp" stands for the      *)
(* character U+00A0.  An Optional value is a sequence of length 0 (None)   *)
(* or 1.  A float is the pair <<n, k>> standing for n / 10^k with no       *)
(* trailing zero in the fraction, so that two floats are equal exactly     *)
(* when the pairs are.                                                     *)
(***************************************************************************)
EXTENDS Integers, Sequences, FiniteSets, TLC

VARIABLES
    site,            \* the site snapshot: URL -> [cards, link]
    max_pages,       \* args.max_pages: None or an integer
    pc,              \* position of main
    next_url,        \* fetch_cards: next_url
    collected,       \* fetch_cards: collected
    pages_seen,      \* fetch_cards: pages_seen
    calls,           \* every outward call made so far, in order
    csv_file,        \* the file at args.output_csv: None or its rows
    args,            \* args.google_sheet_id / args.service_account as read by main
    gspread,         \* whether the optional client library was imported
    sheet,           \* push_to_google_sheet: the opened spreadsheet, tab -> rows
    abort_reason,    \* the exception that ended the run, if any
    raw,             \* normalize_price: its argument
    price,           \* normalize_price: its return value
    price_pc         \* normalize_price: called or returned

vars == <<site, max_pages, pc, next_url, collected, pages_seen, calls, csv_file,
          args, gspread, sheet, abort_reason, raw, price, price_pc>>

run_vars == <<site, max_pages, pc, next_url, collected, pages_seen, calls,
              csv_file, args, gspread, sheet, abort_reason>>

price_vars == <<raw, price, price_pc>>

-----------------------------------------------------------------------------
(* Bounds *)

NPages == 3
MaxCards == 2
MaxM == 2
NegM == 1
MaxFetches == 4
MaxLen == 4

None == <<>>
Some(x) == <<x>>

-----------------------------------------------------------------------------
(* Text helpers: str.replace and str.strip *)

Digits == {"0", "1", "2", "3", "4", "5", "6", "7", "8", "9"}

DigitValue(c) ==
    CASE c = "0" -> 0 [] c = "1" -> 1 [] c = "2" -> 2 [] c = "3" -> 3
      [] c = "4" -> 4 [] c = "5" -> 5 [] c = "6" -> 6 [] c = "7" -> 7
      [] c = "8" -> 8 [] c = "9" -> 9

\* str.strip() with no argument removes every Unicode whitespace character,
\* U+00A0 included.
Whitespace == {" ", "nbsp"}

RECURSIVE Replace(_, _, _)
Replace(s, old, new) ==
    IF s = <<>> THEN <<>>
    ELSE (IF Head(s) = old THEN new ELSE <<Head(s)>>) \o Replace(Tail(s), old, new)

RECURSIVE LStrip(_)
LStrip(s) ==
    IF s # <<>> /\ Head(s) \in Whitespace THEN LStrip(Tail(s)) ELSE s

RECURSIVE RStrip(_)
RStrip(s) ==
    IF s # <<>> /\ s[Len(s)] \in Whitespace THEN RStrip(SubSeq(s, 1, Len(s) - 1)) ELSE s

Strip(s) == RStrip(LStrip(s))

-----------------------------------------------------------------------------
(* re.search(r"(-?\d+(?:\.\d+)?)", cleaned) and float() *)

\* Number of digits of s starting at position i (greedy \d+).
RECURSIVE DigitRun(_, _)
DigitRun(s, i) ==
    IF i <= Len(s) /\ s[i] \in Digits THEN 1 + DigitRun(s, i + 1) ELSE 0

\* The match anchored at position i, or None.
MatchAt(s, i) ==
    LET sign == IF s[i] = "-" THEN 1 ELSE 0
        int  == DigitRun(s, i + sign)
        dot  == i + sign + int
        frac == IF dot <= Len(s) /\ s[dot] = "." THEN DigitRun(s, dot + 1) ELSE 0
        end  == IF frac > 0 THEN dot + frac ELSE dot - 1
    IN  IF int = 0 THEN None ELSE Some(SubSeq(s, i, end))

\* The leftmost match at or after position i, or None.
RECURSIVE SearchFrom(_, _)
SearchFrom(s, i) ==
    IF i > Len(s) THEN None
    ELSE IF MatchAt(s, i) # None THEN MatchAt(s, i)
    ELSE SearchFrom(s, i + 1)

Search(s) == SearchFrom(s, 1)

RECURSIVE DigitsValue(_)
DigitsValue(s) ==
    IF s = <<>> THEN 0 ELSE 10 * DigitsValue(SubSeq(s, 1, Len(s) - 1)) + DigitValue(s[Len(s)])

RECURSIVE Canonical(_, _)
Canonical(n, k) ==
    IF k > 0 /\ n % 10 = 0 THEN Canonical(n \div 10, k - 1) ELSE <<n, k>>

\* float(text) for a text the pattern matched.
Float(text) ==
    LET neg    == Head(text) = "-"
        body   == IF neg THEN Tail(text) ELSE text
        int    == DigitRun(body, 1)
        k      == IF int < Len(body) THEN Len(body) - int - 1 ELSE 0
        digits == SubSeq(body, 1, int) \o SubSeq(body, int + 2, Len(body))
        n      == DigitsValue(digits)
    IN  Canonical(IF neg THEN 0 - n ELSE n, k)

normalize_price(text) ==
    LET cleaned == Replace(Strip(Replace(Replace(text, "€", <<>>), "nbsp", <<" ">>)),
                           ",", <<".">>)
        match   == Search(cleaned)
    IN  IF match = None THEN None ELSE Some(Float(match[1]))

-----------------------------------------------------------------------------
(* Field Extractor and Page Parser *)

\* node.select_one(selector).get_text(strip=True), or "" when nothing matches.
extract_text(element) ==
    IF element = None THEN <<>> ELSE Strip(element[1])

\* src, else data-src, else "".
extract_image(img) ==
    IF img = None THEN <<>>
    ELSE IF img[1].src # <<>> THEN img[1].src
    ELSE IF img[1].data_src # <<>> THEN img[1].data_src
    ELSE <<>>

Card(node) ==
    [name      |-> extract_text(node.title),
     price     |-> normalize_price(extract_text(node.price)),
     image_url |-> extract_image(node.img)]

RECURSIVE parse_cards(_)
parse_cards(nodes) ==
    IF nodes = <<>> THEN <<>> ELSE <<Card(Head(nodes))>> \o parse_cards(Tail(nodes))

\* The link target, or None when there is no link node or its href is missing
\* or empty (href 0 stands for the empty href).
find_next_page(page) ==
    IF page.link # None /\ page.link[1] # 0 THEN Some(page.link[1]) ELSE None

-----------------------------------------------------------------------------
(* The site snapshots the runs are checked on *)

URLs == 1 .. NPages
Links == {None} \cup {Some(h) : h \in 0 .. NPages}

D == <<"1", "2", "3", "4", "5", "6", "7", "8", "9">>

PriceTexts ==
    << Some(<<"1", "2", ",", "5", "0", " ", "€">>),
       Some(<<"N", "/", "A">>),
       None,
       Some(<<" ", "3", "nbsp", "€", " ">>) >>

Images ==
    << Some([src |-> <<"s">>, data_src |-> <<>>]),
       Some([src |-> <<>>, data_src |-> <<"d">>]),
       None >>

\* The i-th card container of page p: its title names the page and the place.
NodeAt(p, i) ==
    [title |-> Some(<<" ", "p", D[p], "c", D[i]>>),
     price |-> PriceTexts[((p + i) % Len(PriceTexts)) + 1],
     img   |-> Images[((p + i) % Len(Images)) + 1]]

PageNodes(p, n) == IF n = 0 THEN <<>> ELSE [i \in 1 .. n |-> NodeAt(p, i)]

\* Every link structure over the URLs (chains, cycles, self-links, empty
\* hrefs); the number of cards of page p is (p + shape) modulo MaxCards + 1,
\* so that each page is empty under one shape and full under another.
Sites ==
    { [p \in URLs |-> [cards |-> PageNodes(p, (p + shape) % (MaxCards + 1)),
                       link  |-> links[p]]] :
        shape \in 0 .. MaxCards, links \in [URLs -> Links] }

MaxPagesArgs == {None} \cup {Some(m) : m \in (0 - NegM) .. MaxM}

\* The body of a response that raise_for_status would have rejected.
ErrorPage == [cards |-> <<>>, link |-> None]

FetchOutcomes == {"ok", "http_error", "timeout"}

-----------------------------------------------------------------------------
(* fetch_cards *)

\* One outward call: a get of URL arg, a sleep, a file write or a worksheet call.
Event(op, arg, outcome) == [op |-> op, arg |-> arg, outcome |-> outcome]

Gets == SelectSeq(calls, LAMBDA e : e.op = "get")

\* session.get raises on a timeout or a connection error.
GetRaises(outcome) == outcome = "timeout"

raise_for_status_never(outcome) == FALSE

raise_for_status(outcome) == outcome = "http_error"

ExtendFront(list, cards) == cards \o list

ExtendUnique(list, cards) ==
    list \o SelectSeq(cards, LAMBDA c : \A i \in DOMAIN list : list[i] # c)

Extend(list, cards) == list \o cards

ReachedMaxStrict(limit, seen) ==
    limit # None /\ limit[1] # 0 /\ seen > limit[1]

\* max_pages and pages_seen >= max_pages
ReachedMax(limit, seen) ==
    limit # None /\ limit[1] # 0 /\ seen >= limit[1]

ShouldSleepAlways(url) == TRUE

\* if next_url:
ShouldSleep(url) == url # None

\* Lines 110-118: get, raise_for_status, parse, extend, count, the page
\* limit, the next link.  MaxFetches caps the runs that never end (cycles
\* without an effective page limit).
Fetch ==
    /\ pc = "loop"
    /\ next_url # None
    /\ Len(Gets) < MaxFetches
    /\ \E outcome \in FetchOutcomes :
         LET u    == next_url[1]
             page == IF outcome = "ok" THEN site[u] ELSE ErrorPage
             seen == pages_seen + 1
             nxt  == find_next_page(page)
         IN  /\ calls' = Append(calls, Event("get", u, outcome))
             /\ IF GetRaises(outcome) \/ raise_for_status(outcome)
                THEN /\ pc' = "aborted"
                     /\ abort_reason' = "HTTPError"
                     /\ UNCHANGED <<next_url, collected, pages_seen>>
                ELSE /\ collected' = Extend(collected, parse_cards(page.cards))
                     /\ pages_seen' = seen
                     /\ abort_reason' = abort_reason
                     /\ IF ReachedMax(max_pages, seen)
                        THEN /\ pc' = "csv"
                             /\ next_url' = next_url
                        ELSE /\ next_url' = nxt
                             /\ pc' = IF ShouldSleep(nxt) THEN "sleep" ELSE "loop"
    /\ UNCHANGED <<site, max_pages, csv_file, args, gspread, sheet>>
    /\ UNCHANGED price_vars

Sleep ==
    /\ pc = "sleep"
    /\ calls' = Append(calls, Event("sleep", 0, "ok"))
    /\ pc' = "loop"
    /\ UNCHANGED <<site, max_pages, next_url, collected, pages_seen, csv_file,
                   args, gspread, sheet, abort_reason>>
    /\ UNCHANGED price_vars

\* while next_url: is false, fetch_cards returns collected.
Return ==
    /\ pc = "loop"
    /\ next_url = None
    /\ pc' = "csv"
    /\ UNCHANGED <<site, max_pages, next_url, collected, pages_seen, calls,
                   csv_file, args, gspread, sheet, abort_reason>>
    /\ UNCHANGED price_vars

-----------------------------------------------------------------------------
(* write_csv *)

Header == << <<"name">>, <<"price">>, <<"image_url">> >>

\* card.price if card.price is not None else ""
PriceCell(p) == IF p = None THEN <<>> ELSE p[1]

Row(card) == <<card.name, PriceCell(card.price), card.image_url>>

Rows(cards) == [i \in DOMAIN cards |-> Row(cards[i])]

CsvRows(cards) == <<Header>> \o Rows(cards)

write_csv ==
    /\ pc = "csv"
    /\ csv_file' = Some(CsvRows(collected))
    /\ calls' = Append(calls, Event("write_csv", 0, "ok"))
    /\ pc' = "sheet_check"
    /\ UNCHANGED <<site, max_pages, next_url, collected, pages_seen, args,
                   gspread, sheet, abort_reason>>
    /\ UNCHANGED price_vars

-----------------------------------------------------------------------------
(* main, lines 181-185, and push_to_google_sheet *)

\* A command-line text argument: omitted, given empty, or given.
TextArgs == {None, Some(<<>>), Some(<<"x">>)}

Truthy(arg) == arg # None /\ arg[1] # <<>>

worksheet == "Cartes"

OldRow == << <<"o">>, <<"l">>, <<"d">> >>

\* What open_by_key can find: the named tab missing, empty, or holding rows.
RemoteSheets ==
    { [t \in {"Sheet1"} |-> <<OldRow>>] }
      \cup { [t \in {"Sheet1", worksheet} |-> IF t = worksheet THEN rows ELSE <<OldRow>>] :
               rows \in {<<>>, <<OldRow>>, <<OldRow, Header>>} }

Unopened == [t \in {} |-> <<>>]

\* if args.google_sheet_id: / if not args.service_account: raise SystemExit
\* The two arguments are drawn here, where main first reads them.
CheckSheetArgs ==
    /\ pc = "sheet_check"
    /\ \E id \in TextArgs, account \in TextArgs :
         /\ args' = [google_sheet_id |-> id, service_account |-> account]
         /\ IF ~Truthy(id)
            THEN pc' = "done" /\ abort_reason' = abort_reason
            ELSE IF ~Truthy(account)
            THEN pc' = "aborted" /\ abort_reason' = "SystemExit"
            ELSE pc' = "push" /\ abort_reason' = abort_reason
    /\ UNCHANGED <<site, max_pages, next_url, collected, pages_seen, calls,
                   csv_file, gspread, sheet>>
    /\ UNCHANGED price_vars

LibraryMissingIgnored(lib) == FALSE

\* gspread is None or Credentials is None
LibraryMissing(lib) == ~lib

\* Lines 132-137: the library check, then authorize and open_by_key.  Whether
\* the import at lines 23-28 succeeded, and what the remote spreadsheet holds,
\* are drawn here, where the run first depends on them.
OpenSpreadsheet ==
    /\ pc = "push"
    /\ \E lib \in BOOLEAN, remote \in RemoteSheets :
         /\ gspread' = lib
         /\ IF LibraryMissing(lib)
            THEN /\ pc' = "aborted"
                 /\ abort_reason' = "RuntimeError"
                 /\ UNCHANGED <<sheet, calls>>
            ELSE /\ sheet' = remote
                 /\ calls' = Append(calls, Event("open_by_key", 0, "ok"))
                 /\ pc' = "select"
                 /\ abort_reason' = abort_reason
    /\ UNCHANGED <<site, max_pages, next_url, collected, pages_seen, csv_file, args>>
    /\ UNCHANGED price_vars

HasWorksheetOrCreate(book, title) == TRUE

\* sheet.worksheet(title) raises WorksheetNotFound for a title the
\* spreadsheet does not hold.
HasWorksheet(book, title) == title \in DOMAIN book

SelectWorksheet ==
    /\ pc = "select"
    /\ calls' = Append(calls, Event("worksheet", 0,
                       IF worksheet \in DOMAIN sheet THEN "ok" ELSE "missing"))
    /\ IF HasWorksheet(sheet, worksheet)
       THEN pc' = "clear" /\ abort_reason' = abort_reason
       ELSE pc' = "aborted" /\ abort_reason' = "WorksheetNotFound"
    /\ UNCHANGED <<site, max_pages, next_url, collected, pages_seen, csv_file,
                   args, gspread, sheet>>
    /\ UNCHANGED price_vars

\* The spreadsheet with the rows of one tab replaced.
SetTab(book, title, rows) ==
    [t \in DOMAIN book \cup {title} |-> IF t = title THEN rows ELSE book[t]]

TabRows(book, title) == IF title \in DOMAIN book THEN book[title] ELSE <<>>

ClearedKeep(rows) == rows

\* ws.clear()
Cleared(rows) == <<>>

Clear ==
    /\ pc = "clear"
    /\ sheet' = SetTab(sheet, worksheet, Cleared(TabRows(sheet, worksheet)))
    /\ calls' = Append(calls, Event("clear", Len(TabRows(sheet, worksheet)), "ok"))
    /\ pc' = "append"
    /\ UNCHANGED <<site, max_pages, next_url, collected, pages_seen, csv_file,
                   args, gspread, abort_reason>>
    /\ UNCHANGED price_vars

\* ws.append_rows([header] + rows): the rows go below the last row in use.
AppendRows ==
    /\ pc = "append"
    /\ sheet' = SetTab(sheet, worksheet,
                       TabRows(sheet, worksheet) \o (<<Header>> \o Rows(collected)))
    /\ calls' = Append(calls, Event("append_rows", 0, "ok"))
    /\ pc' = "done"
    /\ UNCHANGED <<site, max_pages, next_url, collected, pages_seen, csv_file,
                   args, gspread, abort_reason>>
    /\ UNCHANGED price_vars

-----------------------------------------------------------------------------
(* The run of main *)

NoArgs == [google_sheet_id |-> None, service_account |-> None]

Init ==
    /\ site \in Sites
    /\ max_pages \in MaxPagesArgs
    /\ pc = "loop"
    /\ next_url = Some(1)
    /\ collected = <<>>
    /\ pages_seen = 0
    /\ calls = <<>>
    /\ csv_file = None
    /\ args = NoArgs
    /\ gspread = TRUE
    /\ sheet = Unopened
    /\ abort_reason = "none"
    /\ raw = <<>>
    /\ price = None
    /\ price_pc = "idle"

Next ==
    \/ Fetch
    \/ Sleep
    \/ Return
    \/ write_csv
    \/ CheckSheetArgs
    \/ OpenSpreadsheet
    \/ SelectWorksheet
    \/ Clear
    \/ AppendRows

Spec == Init /\ [][Next]_vars

-----------------------------------------------------------------------------
(* normalize_price on every raw text of the bounded alphabet *)

PriceAlphabet == {"0", "1", ",", ".", "-", " ", "nbsp", "€", "a"}

RawTexts == UNION { [1 .. n -> PriceAlphabet] : n \in 0 .. MaxLen }

PriceInit ==
    /\ raw \in RawTexts
    /\ price = None
    /\ price_pc = "call"
    /\ site = [p \in URLs |-> ErrorPage]
    /\ max_pages = None
    /\ pc = "idle"
    /\ next_url = None
    /\ collected = <<>>
    /\ pages_seen = 0
    /\ calls = <<>>
    /\ csv_file = None
    /\ args = NoArgs
    /\ gspread = TRUE
    /\ sheet = Unopened
    /\ abort_reason = "none"

NormalizePrice ==
    /\ price_pc = "call"
    /\ price' = normalize_price(raw)
    /\ price_pc' = "return"
    /\ UNCHANGED raw
    /\ UNCHANGED run_vars

PriceNext == NormalizePrice

PriceSpec == PriceInit /\ [][PriceNext]_vars

-----------------------------------------------------------------------------
(* Vocabulary of the properties *)

Ops(op) == SelectSeq(calls, LAMBDA e : e.op = op)

Count(op) == Len(Ops(op))

Min(a, b) == IF a < b THEN a ELSE b

Max(a, b) == IF a > b THEN a ELSE b

IsPrefix(s, t) == Len(s) <= Len(t) /\ SubSeq(t, 1, Len(s)) = s

\* fetch_cards has returned its list to main.
FetchReturned == pc \notin {"loop", "sleep", "idle"} /\ abort_reason # "HTTPError"

\* Pages 1 .. n-1 link to the following page and page n has no next link.
IsChain(n) ==
    /\ \A p \in 1 .. (n - 1) : site[p].link = Some(p + 1)
    /\ site[n].link \in {None, Some(0)}

RECURSIVE UpTo(_)
UpTo(n) == IF n = 0 THEN <<>> ELSE Append(UpTo(n - 1), n)

GetUrls == [i \in DOMAIN Gets |-> Gets[i].arg]

\* The cards of pages 1 .. n, page after page, each page in document order.
RECURSIVE ChainCards(_)
ChainCards(n) ==
    IF n = 0 THEN <<>>
    ELSE ChainCards(n - 1) \o [i \in DOMAIN site[n].cards |-> Card(site[n].cards[i])]

\* The header row followed by one row per card, in order.
IsTable(rows, cards) ==
    /\ Len(rows) = Len(cards) + 1
    /\ rows[1] = << <<"name">>, <<"price">>, <<"image_url">> >>
    /\ \A i \in DOMAIN cards :
         /\ rows[i + 1][1] = cards[i].name
         /\ rows[i + 1][2] = (IF cards[i].price = None THEN <<>> ELSE cards[i].price[1])
         /\ rows[i + 1][3] = cards[i].image_url

NoWorksheetWrite == Count("clear") = 0 /\ Count("append_rows") = 0

NoSpreadsheetCall ==
    /\ NoWorksheetWrite
    /\ Count("open_by_key") = 0
    /\ Count("worksheet") = 0
    /\ DOMAIN sheet = {}

-----------------------------------------------------------------------------
(* C1 *)

\* C1: on a chain of n pages with no max page count, a run in which every
\* fetch succeeded has fetched pages 1 .. n once each, in that order, and
\* returns the cards of page 1, then page 2, ..., each page in document
\* order; a page without cards adds nothing and does not end the run.
C1_ChainCollectsAllPagesInOrder ==
    \A n \in URLs :
        (FetchReturned /\ max_pages = None /\ IsChain(n)) =>
            /\ GetUrls = UpTo(n)
            /\ \A i \in DOMAIN Gets : Gets[i].outcome = "ok"
            /\ pages_seen = n
            /\ collected = ChainCards(n)

C1_Witness ==
    /\ FetchReturned
    /\ max_pages = None
    /\ IsChain(3)
    /\ site[2].cards = <<>>
    /\ Len(site[1].cards) = 2
    /\ Len(collected) = 3

-----------------------------------------------------------------------------
(* C2 *)

\* C2: with a positive max page count M no run issues more than M fetches;
\* once pages_seen equals M the loop has been left, whatever link the page
\* carries; and on a chain of n pages a run that returned made exactly
\* min(M, n) fetches.
C2_PositiveMaxBoundsFetches ==
    (max_pages # None /\ max_pages[1] >= 1) =>
        /\ Len(Gets) <= max_pages[1]
        /\ pages_seen = max_pages[1] => pc \notin {"loop", "sleep"}
        /\ \A n \in URLs :
             (FetchReturned /\ IsChain(n)) => Len(Gets) = Min(max_pages[1], n)

C2_Witness ==
    /\ FetchReturned
    /\ max_pages = Some(2)
    /\ IsChain(3)
    /\ GetUrls = <<1, 2>>
    /\ site[2].link = Some(3)

-----------------------------------------------------------------------------
(* C3 *)

\* C3: a fetch that fails is the last call of the run: the run is aborted,
\* the tabular file is not written and no spreadsheet call is made, also
\* when earlier pages were collected; if the first fetch fails nothing has
\* been collected.
C3_FailedFetchAbortsRun ==
    \A i \in DOMAIN calls :
        (calls[i].op = "get" /\ calls[i].outcome # "ok") =>
            /\ i = Len(calls)
            /\ pc = "aborted"
            /\ abort_reason = "HTTPError"
            /\ csv_file = None
            /\ Count("write_csv") = 0
            /\ NoSpreadsheetCall
            /\ (i = 1 => collected = <<>>)

C3_Witness ==
    /\ pc = "aborted"
    /\ Len(Gets) = 3
    /\ Gets[3].outcome = "http_error"
    /\ Len(collected) >= 2
    /\ csv_file = None

-----------------------------------------------------------------------------
(* C4 *)

\* The run has read the spreadsheet arguments.
ArgsRead == pc \in {"push", "select", "clear", "append", "done", "aborted"}
                /\ abort_reason # "HTTPError"

\* C4: a spreadsheet identifier without a credential path ends the run in
\* SystemExit, and a missing client library ends it in RuntimeError; in
\* both the tabular file holds the header and one row per collected card,
\* and the worksheet was neither cleared nor appended to.
C4_MisconfiguredExportKeepsCsv ==
    /\ (ArgsRead /\ Truthy(args.google_sheet_id) /\ ~Truthy(args.service_account)) =>
           pc = "aborted" /\ abort_reason = "SystemExit"
    /\ ~gspread => pc = "aborted" /\ abort_reason = "RuntimeError"
    /\ (pc = "aborted" /\ abort_reason \in {"SystemExit", "RuntimeError"}) =>
           /\ csv_file # None
           /\ IsTable(csv_file[1], collected)
           /\ NoSpreadsheetCall

C4_Witness ==
    /\ pc = "aborted"
    /\ abort_reason = "RuntimeError"
    /\ ~gspread
    /\ Truthy(args.service_account)
    /\ Len(collected) >= 2
    /\ Len(csv_file[1]) = Len(collected) + 1

-----------------------------------------------------------------------------
(* C5 *)

\* C5: a delay comes right after a successful fetch and right before the
\* next fetch attempt, and every fetch but the first comes right after a
\* delay; so one delay separates two consecutive fetches and the last
\* fetch of a run is followed by none.
C5_DelayOnlyBetweenFetches ==
    \A i \in DOMAIN calls :
        /\ calls[i].op = "sleep" =>
             /\ i > 1
             /\ calls[i - 1].op = "get"
             /\ calls[i - 1].outcome = "ok"
             /\ IF i < Len(calls)
                THEN calls[i + 1].op = "get"
                ELSE pc = "loop" /\ next_url # None
        /\ (calls[i].op = "get" /\ i > 1) => calls[i - 1].op = "sleep"
        /\ (calls[i].op = "get" /\ max_pages = Some(1)) => Count("sleep") = 0

C5_Witness ==
    /\ FetchReturned
    /\ Count("sleep") = 2
    /\ Len(Gets) = 3
    /\ max_pages = None

-----------------------------------------------------------------------------
(* C6 *)

\* The worksheet calls of the run, in order.
WorksheetWrites == SelectSeq(calls, LAMBDA e : e.op \in {"clear", "append_rows"})

\* C6: an export that ran to its end on an existing worksheet made one
\* clear call and then one append call, and the worksheet holds the header
\* row followed by one row per collected card, in order, and nothing of
\* what it held before.
C6_ExportReplacesWorksheet ==
    /\ pc = "append" =>
           /\ Count("clear") = 1 /\ Count("append_rows") = 0
           /\ sheet[worksheet] = <<>>
    /\ (pc = "done" /\ Count("worksheet") = 1) =>
           /\ Count("clear") = 1 /\ Count("append_rows") = 1
           /\ WorksheetWrites[1].op = "clear"
           /\ WorksheetWrites[2].op = "append_rows"
           /\ IsTable(sheet[worksheet], collected)

C6_Witness ==
    /\ pc = "done"
    /\ Count("append_rows") = 1
    /\ Ops("clear")[1].arg = 2
    /\ Len(collected) >= 2
    /\ Len(sheet[worksheet]) = Len(collected) + 1

-----------------------------------------------------------------------------
(* C7 *)

\* The spreadsheet that was opened had no tab of the requested name.
TabWasMissing == \E i \in DOMAIN calls :
                     calls[i].op = "worksheet" /\ calls[i].outcome = "missing"

TabWasPresent == \E i \in DOMAIN calls :
                     calls[i].op = "worksheet" /\ calls[i].outcome = "ok"

RunEnded == pc \in {"done", "aborted"}

\* C7 as stated: when the spreadsheet has no tab of the requested name the
\* export still completes and leaves a tab of that name holding the header
\* row and all data rows.
C7_MissingTabIsCreated ==
    (RunEnded /\ TabWasMissing) =>
        /\ pc = "done"
        /\ worksheet \in DOMAIN sheet
        /\ IsTable(sheet[worksheet], collected)

\* C7 amended: an existing tab is selected and the export goes on to write
\* it; when the tab is missing the run ends in WorksheetNotFound, no tab is
\* created, the worksheet is neither cleared nor appended to, and the
\* tabular file written before stays.
C7_MissingTabAborts ==
    /\ TabWasPresent =>
           /\ pc \in {"clear", "append", "done"}
           /\ worksheet \in DOMAIN sheet
           /\ pc = "done" => IsTable(sheet[worksheet], collected)
    /\ TabWasMissing =>
           /\ pc = "aborted"
           /\ abort_reason = "WorksheetNotFound"
           /\ worksheet \notin DOMAIN sheet
           /\ NoWorksheetWrite
           /\ csv_file # None
           /\ IsTable(csv_file[1], collected)

C7_Witness ==
    /\ pc = "aborted"
    /\ abort_reason = "WorksheetNotFound"
    /\ TabWasMissing
    /\ DOMAIN sheet = {"Sheet1"}
    /\ Len(collected) >= 1

-----------------------------------------------------------------------------
(* C8 *)

\* The algorithm as specified: delete the currency symbol and every
\* non-breaking space, trim, replace commas by periods, take the first
\* number pattern.
specified_price(text) ==
    LET cleaned == Replace(Strip(Replace(Replace(text, "€", <<>>), "nbsp", <<>>)),
                           ",", <<".">>)
        match   == Search(cleaned)
    IN  IF match = None THEN None ELSE Some(Float(match[1]))

\* C8: for every raw text of the alphabet normalize_price returns what the
\* specified algorithm returns.
C8_MatchesSpecifiedAlgorithm ==
    price_pc = "return" => price = specified_price(raw)

-----------------------------------------------------------------------------
(* C9 *)

\* C9: a step that processes a page appends exactly that page's cards to
\* the accumulator, and no other step changes it: the old value is a prefix
\* of the new one and nothing is dropped, reordered or deduplicated.
C9_AccumulatorOnlyAppends ==
    [][ /\ IsPrefix(collected, collected')
        /\ IF pages_seen' = pages_seen + 1
           THEN Len(collected') = Len(collected) + Len(site[next_url[1]].cards)
           ELSE collected' = collected ]_vars

C9_Witness ==
    /\ pages_seen >= 2
    /\ \E i, j \in DOMAIN collected : i < j /\ collected[i] = collected[j]
    /\ Gets[1].arg = Gets[2].arg

-----------------------------------------------------------------------------
(* C10 *)

\* C10: whenever an integer M is given as the max page count, 0 and
\* negative values included, no run issues more than max(M, 1) fetches.
C10_AnyGivenMaxBoundsFetches ==
    max_pages # None => Len(Gets) <= Max(max_pages[1], 1)

====
